---- MODULE Spec2Model ----
(***************************************************************************)
(* Model of the in-process rate limiter of TS-Value-List-Proxy             *)
(* (api/utils/rateLimiter.js, kept in src/unnamed/part_001).               *)
(*                                                                         *)
(* Time is the value of Date.now(); the limiter only adds windowMs to it   *)
(* and compares it with stored timestamps, so one model tick stands for    *)
(* one unit of the clock.  The store is the module-level Map: a function   *)
(* whose DOMAIN is the set of keys the Map holds.                          *)
(***************************************************************************)
EXTENDS Integers, FiniteSets, Sequences, TLC

(* ---------------------------- bounds ----------------------------------- *)
MaxTime == 3
MaxWindow == 2
MaxAttemptsCap == 2

Identifiers == {"login_a", "login_b"}
WindowChoices == 1..MaxWindow
AttemptChoices == 1..MaxAttemptsCap

VARIABLES now, rateLimitStore, last, result, prevStore, cfg,
          hist, refStore, refLast,
          reqs, resp, util,
          pets, petSeq, auditLog, supabaseAdmin

\* the state of the endpoints and of the callers of the pure helpers; the
\* limiter's own operations leave it alone
handlerVars == <<reqs, resp, util, pets, petSeq, auditLog, supabaseAdmin>>

vars == <<now, rateLimitStore, last, result, prevStore, cfg,
          hist, refStore, refLast, reqs, resp, util,
          pets, petSeq, auditLog, supabaseAdmin>>

(* ------------------------ the Map operations --------------------------- *)
EmptyMap == [k \in {} |-> 0]

MapHas(store, key) == key \in DOMAIN store

MapSetAlone(store, key, value) == [k \in {key} |-> value]
MapSet(store, key, value) ==
  [k \in (DOMAIN store) \cup {key} |-> IF k = key THEN value ELSE store[k]]

(* ------------------------- checkRateLimit ------------------------------ *)
\* the record written by the "first request" and "window expired" branches
NewRecord(t, windowMs) ==
  [attempts |-> 1, resetTime |-> t + windowMs, firstAttempt |-> t]

\* the decision returned by those two branches
FreshResultFull(t, windowMs, maxAttempts) ==
  [allowed |-> TRUE, resetTime |-> t + windowMs, attemptsLeft |-> maxAttempts]
FreshResult(t, windowMs, maxAttempts) ==
  [allowed |-> TRUE, resetTime |-> t + windowMs, attemptsLeft |-> maxAttempts - 1]

\* if (now >= record.resetTime)
WindowExpiredLate(record, t) == t > record.resetTime
WindowExpiredEarly(record, t) == t + 1 >= record.resetTime
WindowExpired(record, t) == t >= record.resetTime

\* if (record.attempts < maxAttempts)
UnderLimitInclusive(record, maxAttempts) == record.attempts <= maxAttempts
UnderLimitNotEqual(record, maxAttempts) == record.attempts # maxAttempts
UnderLimit(record, maxAttempts) == record.attempts < maxAttempts

\* record.attempts++
IncrementAttemptsLost(record) == record
IncrementAttempts(record) == [record EXCEPT !.attempts = @ + 1]

\* the decision of the "within window, under limit" branch; record is the
\* record after the increment
IncrementResultStale(record, maxAttempts) ==
  [allowed |-> TRUE, resetTime |-> record.resetTime,
   attemptsLeft |-> maxAttempts - (record.attempts - 1)]
IncrementResult(record, maxAttempts) ==
  [allowed |-> TRUE, resetTime |-> record.resetTime,
   attemptsLeft |-> maxAttempts - record.attempts]

\* the decision of the "rate limit exceeded" branch
DeniedResult(record, maxAttempts) ==
  [allowed |-> FALSE, resetTime |-> record.resetTime, attemptsLeft |-> 0]

\* the "rate limit exceeded" branch writes nothing to the Map
DeniedStoreCounted(store, identifier, record) ==
  [k \in DOMAIN store |->
     IF k = identifier THEN [record EXCEPT !.attempts = @ + 1] ELSE store[k]]
DeniedStoreExtended(store, identifier, record) ==
  [k \in DOMAIN store |->
     IF k = identifier THEN [record EXCEPT !.resetTime = @ + 1] ELSE store[k]]
DeniedStore(store, identifier, record) == store

\* checkRateLimit(identifier, windowMs, maxAttempts) run on `store` with
\* Date.now() = t: the store it leaves, the decision it returns and the
\* branch of the function that returned it
checkRateLimit(store, identifier, windowMs, maxAttempts, t) ==
  IF ~MapHas(store, identifier)
  THEN [store  |-> MapSet(store, identifier, NewRecord(t, windowMs)),
        result |-> FreshResult(t, windowMs, maxAttempts),
        branch |-> "first"]
  ELSE LET record == store[identifier] IN
       IF WindowExpired(record, t)
       THEN [store  |-> MapSet(store, identifier, NewRecord(t, windowMs)),
             result |-> FreshResult(t, windowMs, maxAttempts),
             branch |-> "expired"]
       ELSE IF UnderLimit(record, maxAttempts)
       THEN LET bumped == IncrementAttempts(record) IN
            [store  |-> MapSet(store, identifier, bumped),
             result |-> IncrementResult(bumped, maxAttempts),
             branch |-> "under"]
       ELSE [store  |-> DeniedStore(store, identifier, record),
             result |-> DeniedResult(record, maxAttempts),
             branch |-> "exceeded"]

(* ------------------------- the cleanup sweep --------------------------- *)
\* if (data.resetTime < now)
SweepExpiredByAge(data, t) == data.firstAttempt < t
SweepExpired(data, t) == data.resetTime < t

\* one run of the setInterval callback on `store` with Date.now() = t
sweepClear(store, t) == EmptyMap
sweep(store, t) ==
  [k \in {key \in DOMAIN store : ~SweepExpired(store[key], t)} |-> store[k]]

(* ----------------------------- state ----------------------------------- *)
\* what an observer of the calls on one identifier has seen so far: the
\* latest record created for it (start, end), the number of calls admitted
\* inside [start, end), and the time and attemptsLeft of the latest admitted
\* call
NoHistory == [start |-> -1, end |-> -1, count |-> 0, lastTime |-> -1, lastLeft |-> -1]

Observe(h, out, t) ==
  IF out.branch \in {"first", "expired"}
  THEN [start |-> t, end |-> out.result.resetTime, count |-> 1,
        lastTime |-> t, lastLeft |-> out.result.attemptsLeft]
  ELSE IF out.result.allowed
  THEN [h EXCEPT !.count = IF t < h.end THEN @ + 1 ELSE @,
                 !.lastTime = t, !.lastLeft = out.result.attemptsLeft]
  ELSE h

NoCall == [op |-> "init", id |-> "", windowMs |-> 0, maxAttempts |-> 0,
           branch |-> ""]
NoResult == [allowed |-> FALSE, resetTime |-> 0, attemptsLeft |-> 0]
NoReplay == [result |-> NoResult, branch |-> ""]
NoConfig == [windowMs |-> 0, maxAttempts |-> 0]
\* a caller's fixed configuration may allow one attempt more than the
\* per-call choices do
FixedAttemptChoices == 1..(MaxAttemptsCap + 1)
Configs == [windowMs : WindowChoices, maxAttempts : FixedAttemptChoices]

\* no request has reached an endpoint, no helper has been called
NoRequests == <<>>
NoUtilCall == [op |-> "none"]
NoAnswer == [status |-> 0]
\* the pets and audit_log tables are not touched outside the pets endpoint
NoPets == <<>>
DatabaseIdle ==
  pets = NoPets /\ petSeq = 1 /\ auditLog = <<>> /\ supabaseAdmin = TRUE
HandlersIdle ==
  reqs = NoRequests /\ resp = NoAnswer /\ util = NoUtilCall /\ DatabaseIdle

InitCommon ==
  /\ now = 0
  /\ rateLimitStore = EmptyMap
  /\ last = NoCall
  /\ result = NoResult
  /\ prevStore = EmptyMap
  /\ hist = [id \in Identifiers |-> NoHistory]
  /\ refStore = EmptyMap
  /\ refLast = NoReplay
  /\ HandlersIdle

\* callers pass whatever parameters they like on each call
Init == InitCommon /\ cfg = [id \in Identifiers |-> NoConfig]

\* each identifier is always checked with the same windowMs and maxAttempts
InitFixed == InitCommon /\ cfg \in [Identifiers -> Configs]

\* one call checkRateLimit(id, windowMs, maxAttempts) at the current time
CheckRateLimitCall(id, windowMs, maxAttempts) ==
  LET out == checkRateLimit(rateLimitStore, id, windowMs, maxAttempts, now) IN
  /\ rateLimitStore' = out.store
  /\ result' = out.result
  /\ prevStore' = rateLimitStore
  /\ last' = [op |-> "check", id |-> id, windowMs |-> windowMs,
              maxAttempts |-> maxAttempts, branch |-> out.branch]
  /\ UNCHANGED <<now, cfg>>

\* the observer of the identifier's calls notes the call
Observed(id, windowMs, maxAttempts) ==
  LET out == checkRateLimit(rateLimitStore, id, windowMs, maxAttempts, now) IN
  hist' = [hist EXCEPT ![id] = Observe(@, out, now)]

\* the same call is made on the replica of the store that is never swept
Replayed(id, windowMs, maxAttempts) ==
  LET ref == checkRateLimit(refStore, id, windowMs, maxAttempts, now) IN
  /\ refStore' = ref.store
  /\ refLast' = [result |-> ref.result, branch |-> ref.branch]

CheckAny ==
  \E id \in Identifiers, windowMs \in WindowChoices, maxAttempts \in AttemptChoices :
    /\ CheckRateLimitCall(id, windowMs, maxAttempts)
    /\ UNCHANGED <<hist, refStore, refLast>>
    /\ UNCHANGED handlerVars

CheckFixed ==
  \E id \in Identifiers :
    /\ CheckRateLimitCall(id, cfg[id].windowMs, cfg[id].maxAttempts)
    /\ Observed(id, cfg[id].windowMs, cfg[id].maxAttempts)
    /\ UNCHANGED <<refStore, refLast>>
    /\ UNCHANGED handlerVars

CheckReplayed ==
  \E id \in Identifiers, windowMs \in WindowChoices, maxAttempts \in AttemptChoices :
    /\ CheckRateLimitCall(id, windowMs, maxAttempts)
    /\ Replayed(id, windowMs, maxAttempts)
    /\ UNCHANGED hist
    /\ UNCHANGED handlerVars

\* the setInterval callback fires
Sweep ==
  /\ rateLimitStore' = sweep(rateLimitStore, now)
  /\ prevStore' = rateLimitStore
  /\ last' = [NoCall EXCEPT !.op = "sweep"]
  /\ result' = NoResult
  /\ refLast' = NoReplay
  /\ UNCHANGED <<now, cfg, hist, refStore>>
  /\ UNCHANGED handlerVars

\* the clock moves on
Tick ==
  /\ now < MaxTime
  /\ now' = now + 1
  /\ prevStore' = rateLimitStore
  /\ last' = [NoCall EXCEPT !.op = "tick"]
  /\ result' = NoResult
  /\ refLast' = NoReplay
  /\ UNCHANGED <<rateLimitStore, cfg, hist, refStore>>
  /\ UNCHANGED handlerVars

\* the replica that only sees the calls made with one identifier, and no
\* sweep
Watched == "login_a"
ReplayedIfWatched(id, windowMs, maxAttempts) ==
  IF id = Watched
  THEN Replayed(id, windowMs, maxAttempts)
  ELSE refLast' = NoReplay /\ UNCHANGED refStore

CheckIsolated ==
  \E id \in Identifiers, windowMs \in WindowChoices, maxAttempts \in AttemptChoices :
    /\ CheckRateLimitCall(id, windowMs, maxAttempts)
    /\ ReplayedIfWatched(id, windowMs, maxAttempts)
    /\ UNCHANGED hist
    /\ UNCHANGED handlerVars

\* the log of the calls admitted for the watched identifier: how many were
\* admitted at each instant of the clock
NoAdmits == [t \in 0..MaxTime |-> 0]
Logged(id, windowMs, maxAttempts) ==
  LET out == checkRateLimit(rateLimitStore, id, windowMs, maxAttempts, now) IN
  hist' = [hist EXCEPT ![id] =
             IF id = Watched /\ out.result.allowed THEN [@ EXCEPT ![now] = @ + 1] ELSE @]

CheckLogged ==
  \E id \in Identifiers :
    /\ CheckRateLimitCall(id, cfg[id].windowMs, cfg[id].maxAttempts)
    /\ Logged(id, cfg[id].windowMs, cfg[id].maxAttempts)
    /\ UNCHANGED <<refStore, refLast>>
    /\ UNCHANGED handlerVars

\* each identifier is always checked with the same parameters: the watched
\* one with any, the others with the login endpoint's single attempt
OtherConfig == [windowMs |-> MaxWindow, maxAttempts |-> 1]
InitLogged ==
  /\ now = 0
  /\ rateLimitStore = EmptyMap
  /\ last = NoCall
  /\ result = NoResult
  /\ prevStore = EmptyMap
  /\ cfg \in {c \in [Identifiers -> Configs] :
                \A id \in Identifiers \ {Watched} : c[id] = OtherConfig}
  /\ hist = [id \in Identifiers |-> NoAdmits]
  /\ refStore = EmptyMap
  /\ refLast = NoReplay
  /\ HandlersIdle

Next == CheckAny \/ Sweep \/ Tick
NextLogged == CheckLogged \/ Sweep \/ Tick
NextIsolated == CheckIsolated \/ Sweep \/ Tick
NextFixed == CheckFixed \/ Sweep \/ Tick
NextReplayed == CheckReplayed \/ Sweep \/ Tick

Spec == Init /\ [][Next]_vars
SpecFixed == InitFixed /\ [][NextFixed]_vars
SpecReplayed == Init /\ [][NextReplayed]_vars
SpecIsolated == Init /\ [][NextIsolated]_vars
SpecLogged == InitLogged /\ [][NextLogged]_vars

(* --------------------- getClientIP, formatWaitTime --------------------- *)
\* A JavaScript string the helpers take apart is a sequence of characters;
\* a value that may be undefined says whether it is present.
Undefined == [present |-> FALSE, value |-> <<>>]
Str(s) == [present |-> TRUE, value |-> s]
\* JavaScript truthiness of a string-or-undefined value
Truthy(v) == v.present /\ v.value # <<>>

Whitespace == {" "}

\* s.split(',')[0]
RECURSIVE FirstEntry(_)
FirstEntry(s) ==
  IF s = <<>> \/ Head(s) = "," THEN <<>> ELSE <<Head(s)>> \o FirstEntry(Tail(s))

\* s.trim()
RECURSIVE TrimStart(_)
TrimStart(s) ==
  IF s # <<>> /\ Head(s) \in Whitespace THEN TrimStart(Tail(s)) ELSE s
RECURSIVE TrimEnd(_)
TrimEnd(s) ==
  IF s # <<>> /\ s[Len(s)] \in Whitespace THEN TrimEnd(SubSeq(s, 1, Len(s) - 1)) ELSE s
Trim(s) == TrimEnd(TrimStart(s))

UnknownIP == <<"u", "n", "k", "n", "o", "w", "n">>

\* req.headers['x-forwarded-for']?.split(',')[0]?.trim()
ForwardedFirstUntrimmed(xff) ==
  IF xff.present THEN Str(FirstEntry(xff.value)) ELSE Undefined
ForwardedFirst(xff) ==
  IF xff.present THEN Str(Trim(FirstEntry(xff.value))) ELSE Undefined

\* getClientIP(req); req.xff and req.xri are the two headers, req.remote is
\* req.connection?.remoteAddress
getClientIP(req) ==
  IF Truthy(ForwardedFirst(req.xff)) THEN ForwardedFirst(req.xff).value
  ELSE IF Truthy(req.xri) THEN req.xri.value
  ELSE IF Truthy(req.remote) THEN req.remote.value
  ELSE UnknownIP

\* Math.ceil(a / b) for b > 0
CeilDivFloor(a, b) == a \div b
CeilDiv(a, b) == -((-a) \div b)

\* `${n} ${word}${n !== 1 ? 's' : ''}`
Plural(n, word) == ToString(n) \o " " \o word \o (IF n # 1 THEN "s" ELSE "")

\* seconds < 60
IsUnderAMinuteInclusive(seconds) == seconds <= 60
IsUnderAMinute(seconds) == seconds < 60

\* formatWaitTime(resetTime) with Date.now() = t
formatWaitTime(resetTime, t) ==
  LET seconds == CeilDiv(resetTime - t, 1000) IN
  IF IsUnderAMinute(seconds) THEN Plural(seconds, "second")
  ELSE LET minutes == CeilDiv(seconds, 60) IN Plural(minutes, "minute")

(* ----------------------- the login endpoint ---------------------------- *)
\* const LOGIN_COOLDOWN_MS = 2 * 60 * 1000
LOGIN_COOLDOWN_MS_Short == 60 * 1000
LOGIN_COOLDOWN_MS == 2 * 60 * 1000
\* the third argument of checkRateLimit(rateLimitKey, LOGIN_COOLDOWN_MS, 1)
LoginMaxAttemptsTwo == 1 + 1
LoginMaxAttempts == 1

\* the admin_users table the endpoints query
AdminUsers ==
  { [username |-> "root",  password |-> "pw-root",  is_active |-> TRUE,  role |-> "admin"],
    [username |-> "mini",  password |-> "pw-mini",  is_active |-> TRUE,  role |-> "miniadmin"],
    [username |-> "gone",  password |-> "pw-gone",  is_active |-> FALSE, role |-> "admin"] }

\* request bodies: "" stands for a missing (falsy) field
LoginBodies ==
  { [username |-> "root", password |-> "pw-root"],
    [username |-> "root", password |-> "nope"],
    [username |-> "",     password |-> "pw-root"] }
NoBody == [username |-> "", password |-> ""]

\* the address headers requests arrive with
LoginHeaders ==
  { [xff |-> Str(<<" ", "7", ",", "9">>), xri |-> Str(<<"9">>), remote |-> Undefined],
    [xff |-> Undefined, xri |-> Str(<<"7">>), remote |-> Str(<<"8">>)],
    [xff |-> Str(<<>>), xri |-> Undefined, remote |-> Undefined] }
LoginMethods == {"OPTIONS", "GET", "POST"}
LoginRequests == {"r1", "r2"}

\* `login_${clientIP}`
LoginKey(clientIP) == <<"login_">> \o clientIP
LoginKeys == {LoginKey(getClientIP(h)) : h \in LoginHeaders}

\* the instants the clock shows when something happens at the login endpoint
MaxLoginWindows == 1
LoginTimes ==
  {k * LOGIN_COOLDOWN_MS + d : k \in 0..MaxLoginWindows, d \in {0, LOGIN_COOLDOWN_MS - 1}}

\* a request slot holds what a handler keeps across its await
IdleRequest == [pc |-> "idle", key |-> <<>>, body |-> NoBody, lookups |-> 0]

\* the answer the latest handler step sent, with what the handler did for
\* that request: the rate check it got and the admin_users queries it made
NoResponse ==
  [req |-> "", method |-> "", key |-> <<>>, checked |-> FALSE, rate |-> NoResult,
   status |-> 0, error |-> "", valid |-> FALSE, retryAfter |-> 0, lookups |-> 0]

\* res.status(status).json({error, valid})
Answer(r, method, status, error, valid) ==
  [NoResponse EXCEPT !.req = r, !.method = method, !.status = status,
                     !.error = error, !.valid = valid]

\* if (!rateCheck.allowed)
RateLimitedNever(rateCheck) == FALSE
RateLimited(rateCheck) == ~rateCheck.allowed

\* if (!username || !password)
MissingCredentials(body) == body.username = "" \/ body.password = ""

\* the 429 answer of a POST whose rate check was denied at Date.now() = t
TooManyAttempts(r, key, rateCheck, t) ==
  [Answer(r, "POST", 429,
          "Too many login attempts. Please try again in "
            \o formatWaitTime(rateCheck.resetTime, t) \o ".",
          FALSE)
     EXCEPT !.key = key, !.checked = TRUE, !.rate = rateCheck,
            !.retryAfter = CeilDiv(rateCheck.resetTime - t, 1000)]

\* if (req.method === "OPTIONS") ... if (req.method !== "POST") ...
NotAPostOptionsOnly(method) == method = "OPTIONS"
NotAPost(method) == method = "OPTIONS" \/ method # "POST"

\* a request reaches the handler, which runs up to its first await
LoginArrive(r, method, headers, body) ==
  /\ reqs[r].pc = "idle"
  /\ IF NotAPost(method)
     THEN /\ resp' = IF method = "OPTIONS"
                     THEN Answer(r, method, 200, "", FALSE)
                     ELSE Answer(r, method, 405, "Method not allowed", FALSE)
          /\ last' = [NoCall EXCEPT !.op = "request"]
          /\ result' = NoResult
          /\ prevStore' = rateLimitStore
          /\ UNCHANGED <<now, rateLimitStore, cfg, hist, reqs>>
     ELSE LET clientIP == getClientIP(headers)
              rateLimitKey == LoginKey(clientIP)
              rateCheck == checkRateLimit(rateLimitStore, rateLimitKey,
                                          LOGIN_COOLDOWN_MS, LoginMaxAttempts, now).result
          IN /\ CheckRateLimitCall(rateLimitKey, LOGIN_COOLDOWN_MS, LoginMaxAttempts)
             /\ Observed(rateLimitKey, LOGIN_COOLDOWN_MS, LoginMaxAttempts)
             /\ IF RateLimited(rateCheck)
                THEN /\ resp' = TooManyAttempts(r, rateLimitKey, rateCheck, now)
                     /\ UNCHANGED reqs
                ELSE IF MissingCredentials(body)
                THEN /\ resp' = [Answer(r, method, 400, "Username and password required", FALSE)
                                   EXCEPT !.key = rateLimitKey, !.checked = TRUE,
                                          !.rate = rateCheck]
                     /\ UNCHANGED reqs
                ELSE /\ resp' = [NoResponse EXCEPT !.req = r, !.method = method,
                                   !.key = rateLimitKey, !.checked = TRUE,
                                   !.rate = rateCheck, !.lookups = 1]
                     /\ reqs' = [reqs EXCEPT ![r] =
                                   [pc |-> "awaitDb", key |-> rateLimitKey,
                                    body |-> body, lookups |-> 1]]
  /\ UNCHANGED <<refStore, refLast, util, pets, petSeq, auditLog, supabaseAdmin>>

\* the admin_users query of a waiting request completes and the handler
\* runs to its end
LoginDbReply(r, outcome) ==
  LET req == reqs[r]
      rows == {u \in AdminUsers : u.username = req.body.username /\ u.is_active}
      admin == CHOOSE u \in rows : TRUE
      answer ==
        IF outcome = "throw" THEN Answer(r, "POST", 500, "Internal server error", FALSE)
        ELSE IF outcome = "error" \/ Cardinality(rows) # 1
        THEN Answer(r, "POST", 200, "", FALSE)
        ELSE IF admin.password # req.body.password THEN Answer(r, "POST", 200, "", FALSE)
        ELSE Answer(r, "POST", 200, "", TRUE)
  IN
  /\ req.pc = "awaitDb"
  /\ resp' = [answer EXCEPT !.key = req.key, !.checked = TRUE,
                            !.rate = [NoResult EXCEPT !.allowed = TRUE],
                            !.lookups = req.lookups]
  /\ reqs' = [reqs EXCEPT ![r] = IdleRequest]
  /\ last' = [NoCall EXCEPT !.op = "reply"]
  /\ result' = NoResult
  /\ prevStore' = rateLimitStore
  /\ UNCHANGED <<now, rateLimitStore, cfg, hist, refStore, refLast, util>>
  /\ UNCHANGED <<pets, petSeq, auditLog, supabaseAdmin>>

\* the clock moves on to a later instant
ClockJump ==
  /\ \E t \in LoginTimes : t > now /\ now' = t
  /\ last' = [NoCall EXCEPT !.op = "tick"]
  /\ result' = NoResult
  /\ prevStore' = rateLimitStore
  /\ resp' = NoResponse
  /\ UNCHANGED <<rateLimitStore, cfg, hist, refStore, refLast, reqs, util>>
  /\ UNCHANGED <<pets, petSeq, auditLog, supabaseAdmin>>

InitLogin ==
  /\ now = 0
  /\ rateLimitStore = EmptyMap
  /\ last = NoCall
  /\ result = NoResult
  /\ prevStore = EmptyMap
  /\ cfg = [k \in LoginKeys |->
              [windowMs |-> LOGIN_COOLDOWN_MS, maxAttempts |-> LoginMaxAttempts]]
  /\ hist = [k \in LoginKeys |-> NoHistory]
  /\ refStore = EmptyMap
  /\ refLast = NoReplay
  /\ reqs = [r \in LoginRequests |-> IdleRequest]
  /\ resp = NoResponse
  /\ util = NoUtilCall
  /\ DatabaseIdle

LoginRequest ==
  \E r \in LoginRequests, method \in LoginMethods, headers \in LoginHeaders,
     body \in LoginBodies :
    LoginArrive(r, method, headers, body)

LoginReply ==
  \E r \in LoginRequests, outcome \in {"answer", "error", "throw"} :
    LoginDbReply(r, outcome)

NextLogin == LoginRequest \/ LoginReply \/ Sweep \/ ClockJump
SpecLogin == InitLogin /\ [][NextLogin]_vars

(* ------------------- calls of the two pure helpers --------------------- *)
\* formatWaitTime is called with reset times up to MaxFormatSeconds seconds
\* before and after the clock, on and next to the whole seconds
MaxFormatSeconds == 150
FormatDeltas ==
  {k * 1000 + e : k \in (-MaxFormatSeconds)..MaxFormatSeconds, e \in {-1, 0, 1}}
UtilNows == {200000, 200999}

\* getClientIP is called with header values of up to MaxHeaderLen characters
MaxHeaderLen == 3
HeaderChars == {"7", " ", ","}
HeaderStrings == UNION {[1..n -> HeaderChars] : n \in 0..MaxHeaderLen}
ClientRequests ==
  [xff : {Undefined} \cup {Str(v) : v \in HeaderStrings},
   xri : {Undefined, Str(<<>>), Str(<<"8">>)},
   remote : {Undefined, Str(<<"9">>)}]

InitUtil ==
  /\ now \in UtilNows
  /\ rateLimitStore = EmptyMap
  /\ last = NoCall
  /\ result = NoResult
  /\ prevStore = EmptyMap
  /\ cfg = [id \in Identifiers |-> NoConfig]
  /\ hist = [id \in Identifiers |-> NoHistory]
  /\ refStore = EmptyMap
  /\ refLast = NoReplay
  /\ HandlersIdle

limiterVars == <<now, rateLimitStore, last, result, prevStore, cfg,
                 hist, refStore, refLast>>

FormatWaitTimeCall ==
  \E d \in FormatDeltas :
    /\ util' = [op |-> "formatWaitTime", resetTime |-> now + d,
                text |-> formatWaitTime(now + d, now)]
    /\ UNCHANGED <<limiterVars, reqs, resp, pets, petSeq, auditLog, supabaseAdmin>>

GetClientIPCall ==
  \E req \in ClientRequests :
    /\ util' = [op |-> "getClientIP", req |-> req, ip |-> getClientIP(req)]
    /\ UNCHANGED <<limiterVars, reqs, resp, pets, petSeq, auditLog, supabaseAdmin>>

NextUtil == FormatWaitTimeCall \/ GetClientIPCall
SpecUtil == InitUtil /\ [][NextUtil]_vars

(* ------------------------- the pets endpoint --------------------------- *)
\* api/pets.js.  The pets table is a function from the ids of its rows to
\* the rows, the audit_log table the sequence of the rows inserted into it.
\* A text field that is undefined, null or empty in a request body is "";
\* the null a column stores is Null.  The webhook a miniadmin edit sends
\* leaves the server and touches neither table.
MaxPetId == 2
MaxAudit == 1

Null == "null"
ValueFields == {"value_normal", "value_golden", "value_rainbow", "value_void"}
DetailFields == {"name", "rarity", "stats", "stats_type", "image_url", "how_to_get"}
PetFields == DetailFields \cup ValueFields
PetColumns == PetFields \cup {"id", "updated_at"}

\* v || d
OrElse(v, d) == IF v = "" THEN d ELSE v

\* the fallback of each optional column: stats || '0', value_void || '1', ...
FieldDefault(f) ==
  CASE f = "stats_type" -> "value"
    [] f = "value_void" -> "1"
    [] f \in {"image_url", "how_to_get"} -> Null
    [] OTHER -> "0"

PetBody(name, rarity, rest) ==
  [f \in PetFields |-> IF f = "name" THEN name ELSE IF f = "rarity" THEN rarity ELSE rest]
\* a body that names every field but value_void and image_url, and a body
\* without a name
PetBodies ==
  { [PetBody("Nova", "Rare", "9") EXCEPT !["value_void"] = "", !["image_url"] = ""],
    PetBody("", "Rare", "9") }
NoPetBody == PetBody("", "", "")

\* the X-Admin-Username and X-Admin-Password headers
NoCredentials == [username |-> "", password |-> ""]
PetCredentials ==
  { NoCredentials,
    [username |-> "root", password |-> "pw-root"],
    [username |-> "mini", password |-> "pw-mini"],
    [username |-> "root", password |-> "nope"],
    [username |-> "gone", password |-> "pw-gone"] }

PetMethods == {"OPTIONS", "GET", "POST", "PUT", "DELETE", "PATCH"}
WriteMethods == {"POST", "PUT", "DELETE"}
\* the requests in flight: the endpoint is followed one request at a time
PetRequests == {"p1"}

\* the last segment of req.url: an id, or NotAnId for '', 'pets' and text
NotAnId == 0 - 1
PetUrlIds == {NotAnId} \cup (1..MaxPetId)
\* if (!petId || petId === 'pets' || isNaN(petId))
BadPetId(petId) == petId = NotAnId

\* the row the table holds before any request
FirstPet ==
  [f \in PetColumns |->
     CASE f = "id" -> 1
       [] f = "updated_at" -> 0 - 1
       [] f = "name" -> "Axo"
       [] f = "rarity" -> "Common"
       [] OTHER -> "3"]
NoPet == [f \in PetColumns |-> IF f \in {"id", "updated_at"} THEN 0 ELSE ""]

\* verifyAdmin: null unless exactly one active row has the name and password
NoAdmin == [username |-> "", role |-> ""]
MatchingAdminsInactiveToo(username, password) ==
  {a \in AdminUsers : a.username = username /\ a.password = password}
MatchingAdmins(username, password) ==
  {a \in AdminUsers : a.username = username /\ a.password = password /\ a.is_active}
verifyAdmin(username, password, queryOk) ==
  IF username = "" \/ password = "" THEN NoAdmin
  ELSE LET rows == MatchingAdmins(username, password)
       IN IF queryOk /\ Cardinality(rows) = 1
          THEN LET a == CHOOSE a \in rows : TRUE
               IN [username |-> a.username, role |-> a.role]
          ELSE NoAdmin

\* if (admin.role === 'miniadmin') in handlePost and handleDelete
MiniadminBlockedNever(method, admin) == FALSE
MiniadminBlocked(method, admin) ==
  method \in {"POST", "DELETE"} /\ admin.role = "miniadmin"

\* if (!name || !rarity)
MissingNameOrRarity(body) == body["name"] = "" \/ body["rarity"] = ""

\* the object handlePost inserts and the full-admin updateData of handlePut
FullData(body, t) ==
  [f \in PetFields \cup {"updated_at"} |->
     IF f = "updated_at" THEN t
     ELSE IF f \in {"name", "rarity"} THEN body[f]
     ELSE OrElse(body[f], FieldDefault(f))]
\* the miniadmin updateData of handlePut
ValueData(body, t) ==
  [f \in ValueFields \cup {"updated_at"} |->
     IF f = "updated_at" THEN t ELSE OrElse(body[f], FieldDefault(f))]
UpdateDataUnrestricted(admin, body, t) == FullData(body, t)
UpdateData(admin, body, t) ==
  IF admin.role = "miniadmin" THEN ValueData(body, t) ELSE FullData(body, t)

\* .insert([data]): the new row takes the next id of the sequence
InsertedRow(data, id) == [f \in PetColumns |-> IF f = "id" THEN id ELSE data[f]]
\* .update(updateData).eq("id", petId): the columns named are overwritten
UpdatedRow(row, data) ==
  [f \in PetColumns |-> IF f \in DOMAIN data THEN data[f] ELSE row[f]]
SetPet(table, id, row) ==
  [k \in DOMAIN table \cup {id} |-> IF k = id THEN row ELSE table[k]]
RemovePet(table, id) == [k \in DOMAIN table \ {id} |-> table[k]]
\* .select("*").eq("id", petId).single(): data is null when no row has the id
SelectPet(table, id) == IF id \in DOMAIN table THEN table[id] ELSE NoPet

\* the keys of the changes object handlePut computes for the audit log
Changes(admin, oldPet, body) ==
  IF oldPet = NoPet THEN {}
  ELSE {f \in (IF admin.role = "miniadmin" THEN ValueFields ELSE PetFields) :
          oldPet[f] # body[f]}

\* the row logAudit inserts; changes holds the keys of the changes object
AuditRow(username, actionType, petId, petName, changes, adminRole) ==
  [username |-> username, action_type |-> actionType, pet_id |-> petId,
   pet_name |-> petName, changes |-> changes,
   admin_role |-> OrElse(adminRole, "admin")]

\* what a handler keeps across its awaits, and the tables it has written
IdlePet ==
  [pc |-> "idle", method |-> "", creds |-> NoCredentials, petId |-> NotAnId,
   body |-> NoPetBody, admin |-> NoAdmin, pet |-> NoPet, data |-> <<>>,
   audit |-> <<>>, wrote |-> {}]

\* the answer the latest handler step sent and what that request did
NoPetResponse ==
  [req |-> "", method |-> "", creds |-> NoCredentials, admin |-> NoAdmin,
   status |-> 0, wrote |-> {}]
PetAnswer(r, slot, status) ==
  [req |-> r, method |-> slot.method, creds |-> slot.creds, admin |-> slot.admin,
   status |-> status, wrote |-> slot.wrote]

Reply(r, slot, status) ==
  /\ resp' = PetAnswer(r, slot, status)
  /\ reqs' = [reqs EXCEPT ![r] = IdlePet]
Await(r, slot) ==
  /\ reqs' = [reqs EXCEPT ![r] = slot]
  /\ resp' = NoPetResponse

\* handler: a request arrives and runs up to its first await
PetArrive(r, method, creds, petId, body) ==
  /\ reqs[r].pc = "idle"
  /\ Len(auditLog) < MaxAudit
  /\ method = "POST" => petSeq <= MaxPetId
  /\ LET slot == [IdlePet EXCEPT !.method = method, !.creds = creds,
                                 !.petId = petId, !.body = body]
     IN CASE method = "OPTIONS" -> Reply(r, slot, 200)
          [] method = "GET" -> Await(r, [slot EXCEPT !.pc = "get"])
          [] method \in WriteMethods ->
               IF ~supabaseAdmin THEN Reply(r, slot, 500)
               ELSE Await(r, [slot EXCEPT !.pc = "verify"])
          [] OTHER -> Reply(r, slot, 405)
  /\ UNCHANGED <<limiterVars, util, pets, petSeq, auditLog, supabaseAdmin>>

\* handleGet: the select of all pets returns
PetListed(r, queryOk) ==
  /\ reqs[r].pc = "get"
  /\ Reply(r, reqs[r], IF queryOk THEN 200 ELSE 500)
  /\ UNCHANGED <<limiterVars, util, pets, petSeq, auditLog, supabaseAdmin>>

\* verifyAdmin returns to handlePost, handlePut or handleDelete
PetVerified(r, queryOk) ==
  /\ reqs[r].pc = "verify"
  /\ LET admin == verifyAdmin(reqs[r].creds.username, reqs[r].creds.password, queryOk)
         slot == [reqs[r] EXCEPT !.admin = admin]
     IN IF admin = NoAdmin THEN Reply(r, slot, 401)
        ELSE IF MiniadminBlocked(slot.method, admin) THEN Reply(r, slot, 403)
        ELSE IF slot.method = "POST"
        THEN IF MissingNameOrRarity(slot.body) THEN Reply(r, slot, 400)
             ELSE Await(r, [slot EXCEPT !.pc = "write",
                                        !.data = FullData(slot.body, now)])
        ELSE IF BadPetId(slot.petId) THEN Reply(r, slot, 400)
             ELSE Await(r, [slot EXCEPT !.pc = "select"])
  /\ UNCHANGED <<limiterVars, util, pets, petSeq, auditLog, supabaseAdmin>>

\* the select of the current row returns to handlePut or handleDelete
PetSelected(r) ==
  /\ reqs[r].pc = "select"
  /\ LET slot == [reqs[r] EXCEPT !.pet = SelectPet(pets, reqs[r].petId)]
     IN IF slot.method = "PUT"
        THEN IF MissingNameOrRarity(slot.body) THEN Reply(r, slot, 400)
             ELSE Await(r, [slot EXCEPT !.pc = "write",
                                        !.data = UpdateData(slot.admin, slot.body, now)])
        ELSE Await(r, [slot EXCEPT !.pc = "write"])
  /\ UNCHANGED <<limiterVars, util, pets, petSeq, auditLog, supabaseAdmin>>

\* the insert, update or delete on the pets table returns
PetWritten(r, queryOk) ==
  /\ reqs[r].pc = "write"
  /\ LET slot == reqs[r]
         done == [slot EXCEPT !.pc = "audit", !.wrote = @ \cup {"pets"}]
     IN CASE slot.method = "POST" ->
               IF queryOk
               THEN /\ pets' = SetPet(pets, petSeq, InsertedRow(slot.data, petSeq))
                    /\ petSeq' = petSeq + 1
                    /\ Await(r, [done EXCEPT !.audit =
                         AuditRow(slot.creds.username, "ADD", petSeq, slot.data["name"],
                                  PetFields \ {"image_url"}, slot.admin.role)])
               ELSE /\ Reply(r, slot, 500)
                    /\ UNCHANGED <<pets, petSeq>>
          [] slot.method = "PUT" ->
               IF queryOk /\ slot.petId \in DOMAIN pets
               THEN LET updatedPet == UpdatedRow(pets[slot.petId], slot.data)
                    IN /\ pets' = SetPet(pets, slot.petId, updatedPet)
                       /\ Await(r, [done EXCEPT !.audit =
                            AuditRow(slot.creds.username, "EDIT", updatedPet["id"],
                                     updatedPet["name"],
                                     Changes(slot.admin, slot.pet, slot.body),
                                     slot.admin.role)])
                       /\ UNCHANGED petSeq
               ELSE /\ Reply(r, slot, 500)
                    /\ UNCHANGED <<pets, petSeq>>
          [] OTHER ->
               IF queryOk
               THEN /\ pets' = RemovePet(pets, slot.petId)
                    /\ IF slot.pet # NoPet
                       THEN Await(r, [done EXCEPT !.audit =
                              AuditRow(slot.creds.username, "DELETE", slot.pet["id"],
                                       slot.pet["name"], {"deleted_pet"}, slot.admin.role)])
                       ELSE Reply(r, [slot EXCEPT !.wrote = @ \cup {"pets"}], 200)
                    /\ UNCHANGED petSeq
               ELSE /\ Reply(r, slot, 500)
                    /\ UNCHANGED <<pets, petSeq>>
  /\ UNCHANGED <<limiterVars, util, auditLog, supabaseAdmin>>

\* logAudit returns: its insert is in the audit log unless it failed
PetAudited(r, queryOk) ==
  /\ reqs[r].pc = "audit"
  /\ LET slot == reqs[r]
         done == IF queryOk THEN [slot EXCEPT !.wrote = @ \cup {"audit_log"}] ELSE slot
     IN /\ auditLog' = IF queryOk THEN Append(auditLog, slot.audit) ELSE auditLog
        /\ Reply(r, done, IF slot.method = "POST" THEN 201 ELSE 200)
  /\ UNCHANGED <<limiterVars, util, pets, petSeq, supabaseAdmin>>

\* the process starts with or without SUPABASE_SERVICE_ROLE_KEY
InitPets ==
  /\ now = 0
  /\ rateLimitStore = EmptyMap
  /\ last = NoCall
  /\ result = NoResult
  /\ prevStore = EmptyMap
  /\ cfg = [id \in Identifiers |-> NoConfig]
  /\ hist = [id \in Identifiers |-> NoHistory]
  /\ refStore = EmptyMap
  /\ refLast = NoReplay
  /\ util = NoUtilCall
  /\ reqs = [r \in PetRequests |-> IdlePet]
  /\ resp = NoPetResponse
  /\ pets = SetPet(NoPets, 1, FirstPet)
  /\ petSeq = 2
  /\ auditLog = <<>>
  /\ supabaseAdmin \in BOOLEAN

PetRequest ==
  \E r \in PetRequests, method \in PetMethods, creds \in PetCredentials,
     petId \in PetUrlIds, body \in PetBodies :
    PetArrive(r, method, creds, petId, body)
PetList == \E r \in PetRequests, queryOk \in BOOLEAN : PetListed(r, queryOk)
PetVerify == \E r \in PetRequests, queryOk \in BOOLEAN : PetVerified(r, queryOk)
PetSelect == \E r \in PetRequests : PetSelected(r)
PetWrite == \E r \in PetRequests, queryOk \in BOOLEAN : PetWritten(r, queryOk)
PetAudit == \E r \in PetRequests, queryOk \in BOOLEAN : PetAudited(r, queryOk)

NextPets == PetRequest \/ PetList \/ PetVerify \/ PetSelect \/ PetWrite \/ PetAudit
SpecPets == InitPets /\ [][NextPets]_vars

(* ------------------------- properties ---------------------------------- *)
IsCheck == last.op = "check"
\* the record the last call found for its identifier
HadRecord == last.id \in DOMAIN prevStore
Pre == prevStore[last.id]
Post == rateLimitStore[last.id]
Decisions == [allowed : BOOLEAN, resetTime : Nat, attemptsLeft : Nat]

\* C1: with one windowMs and one maxAttempts per identifier, the number of
\* calls admitted from the creation of a record up to its resetTime never
\* exceeds maxAttempts, whatever calls, clock advances and sweeps happen.
C1_AtMostMaxAdmitted ==
  \A id \in Identifiers : hist[id].count <= cfg[id].maxAttempts

\* a window that admitted its full quota of two or more calls and then
\* turned a call away
C1_Witness ==
  /\ IsCheck /\ ~result.allowed
  /\ cfg[last.id].maxAttempts >= 2
  /\ hist[last.id].count = cfg[last.id].maxAttempts

\* C2: a call for an identifier with no stored record is admitted, returns
\* attemptsLeft = maxAttempts - 1 and resetTime = now + windowMs, and leaves
\* the record attempts = 1, resetTime = now + windowMs.
C2_FreshIdentifier ==
  (IsCheck /\ ~HadRecord) =>
    /\ result = [allowed |-> TRUE, resetTime |-> now + last.windowMs,
                 attemptsLeft |-> last.maxAttempts - 1]
    /\ last.id \in DOMAIN rateLimitStore
    /\ Post.attempts = 1
    /\ Post.resetTime = now + last.windowMs

\* a first call made after the clock has moved, with two attempts allowed
C2_Witness ==
  /\ IsCheck /\ ~HadRecord
  /\ now >= 1 /\ last.maxAttempts = 2 /\ result.attemptsLeft = 1

\* C3: with maxAttempts = 1, once a call for an identifier was admitted at
\* time t, every later call for it strictly before t + windowMs is denied
\* with attemptsLeft = 0, sweeps or not.
C3_SingleAttemptDenied ==
  [][\A id \in Identifiers :
       ( /\ last'.op = "check" /\ last'.id = id
         /\ cfg[id].maxAttempts = 1
         /\ hist[id].lastTime >= 0
         /\ now < hist[id].lastTime + cfg[id].windowMs )
       => (result'.allowed = FALSE /\ result'.attemptsLeft = 0)]_vars

\* a denied call made at a later clock value than the admitted one, but
\* still inside its window
C3_Witness ==
  /\ IsCheck /\ ~result.allowed /\ result.attemptsLeft = 0
  /\ cfg[last.id].maxAttempts = 1
  /\ hist[last.id].lastTime >= 0
  /\ now > hist[last.id].lastTime
  /\ now < hist[last.id].lastTime + cfg[last.id].windowMs

\* C4: a call that finds a record with now >= resetTime (equality included)
\* is treated as a first call: admitted, attemptsLeft = maxAttempts - 1, and
\* the record becomes attempts = 1, resetTime = now + windowMs.
C4_ExpiredWindowRestarts ==
  (IsCheck /\ HadRecord /\ now >= Pre.resetTime) =>
    /\ result = [allowed |-> TRUE, resetTime |-> now + last.windowMs,
                 attemptsLeft |-> last.maxAttempts - 1]
    /\ last.id \in DOMAIN rateLimitStore
    /\ Post.attempts = 1
    /\ Post.resetTime = now + last.windowMs

\* the call came exactly at resetTime and found a record that had counted
\* more than one attempt
C4_Witness ==
  /\ IsCheck /\ HadRecord
  /\ now = Pre.resetTime /\ Pre.attempts >= 2
  /\ result.allowed /\ Post.attempts = 1

\* C5: inside one window of one identifier every admitted call returns an
\* attemptsLeft exactly 1 below that of the previous admitted call, and no
\* call returns a negative attemptsLeft.
C5_AttemptsLeftCountsDown ==
  [][\A id \in Identifiers :
       (last'.op = "check" /\ last'.id = id) =>
         /\ result'.attemptsLeft >= 0
         /\ ( /\ result'.allowed
              /\ hist[id].start >= 0
              /\ now < hist[id].end )
            => result'.attemptsLeft = hist[id].lastLeft - 1]_vars

\* the third admitted call of a window, which brought attemptsLeft to 0
C5_Witness ==
  /\ IsCheck /\ result.allowed /\ result.attemptsLeft = 0
  /\ cfg[last.id].maxAttempts = 3
  /\ hist[last.id].count = 3

\* C6: every stored record has 1 <= attempts <= the maxAttempts its
\* identifier is checked with.
C6_AttemptsWithinLimit ==
  \A id \in DOMAIN rateLimitStore :
    /\ rateLimitStore[id].attempts >= 1
    /\ rateLimitStore[id].attempts <= cfg[id].maxAttempts

\* a record that reached a limit of two or more, and was then called again
C6_Witness ==
  /\ IsCheck /\ ~result.allowed
  /\ Post.attempts = cfg[last.id].maxAttempts
  /\ Post.attempts >= 2

\* C7: a denied call (record present, now < resetTime, attempts >=
\* maxAttempts) leaves the whole store as it was and reports allowed = false,
\* attemptsLeft = 0 and the record's resetTime.
C7_DeniedLeavesStore ==
  (IsCheck /\ HadRecord /\ now < Pre.resetTime /\ Pre.attempts >= last.maxAttempts) =>
    /\ rateLimitStore = prevStore
    /\ result = [allowed |-> FALSE, resetTime |-> Pre.resetTime, attemptsLeft |-> 0]

\* a denial while the store also holds a record of the other identifier
C7_Witness ==
  /\ IsCheck /\ HadRecord
  /\ now < Pre.resetTime /\ Pre.attempts >= last.maxAttempts
  /\ DOMAIN prevStore = Identifiers
  /\ ~result.allowed

\* C8: checkRateLimit returns a decision for every input; it is denied
\* exactly when a record exists, now < resetTime and attempts >= maxAttempts;
\* admitted inside an open window, it adds exactly 1 to attempts and returns
\* attemptsLeft = maxAttempts - (new attempts).
C8_DecisionTable ==
  /\ \A id \in Identifiers, w \in WindowChoices, m \in AttemptChoices :
       checkRateLimit(rateLimitStore, id, w, m, now).result \in Decisions
  /\ IsCheck =>
       /\ result \in Decisions
       /\ (~result.allowed) <=>
            (HadRecord /\ now < Pre.resetTime /\ Pre.attempts >= last.maxAttempts)
       /\ (result.allowed /\ HadRecord /\ now < Pre.resetTime) =>
            /\ Post.attempts = Pre.attempts + 1
            /\ result.attemptsLeft = last.maxAttempts - Post.attempts

\* a denial by a record that holds more attempts than this call allows
C8_Witness ==
  /\ IsCheck /\ HadRecord /\ ~result.allowed
  /\ now < Pre.resetTime /\ Pre.attempts > last.maxAttempts

\* C9: one sweep deletes every record whose resetTime is before the sweep's
\* time and leaves every record whose resetTime is after it exactly as it was.
C9_SweepRemovesExpiredOnly ==
  (last.op = "sweep") =>
    /\ DOMAIN rateLimitStore \subseteq DOMAIN prevStore
    /\ \A k \in DOMAIN prevStore :
         /\ (prevStore[k].resetTime < now) => k \notin DOMAIN rateLimitStore
         /\ (prevStore[k].resetTime > now) =>
              (k \in DOMAIN rateLimitStore /\ rateLimitStore[k] = prevStore[k])

\* a sweep that found one expired record and one still running
C9_Witness ==
  /\ last.op = "sweep"
  /\ \E k \in DOMAIN prevStore : prevStore[k].resetTime < now
  /\ \E k \in DOMAIN prevStore : prevStore[k].resetTime > now /\ prevStore[k].attempts >= 2

\* C10: the decisions are those of a store that is never swept: each call
\* returns the same (allowed, resetTime, attemptsLeft) as the same call made
\* on the replica that saw the same calls and clock but no sweep.
C10_SweepInvisible ==
  IsCheck => result = refLast.result

\* the call found its record swept away while the replica still held the
\* expired one
C10_Witness ==
  /\ IsCheck
  /\ last.branch = "first" /\ refLast.branch = "expired"
  /\ last.maxAttempts = 2

\* C11: a login POST whose rate check is denied is answered 429 with the
\* wait message and retryAfter (seconds until the reset), and the handler
\* makes no admin_users query for it.
C11_DeniedLoginAnswers429 ==
  (resp.checked /\ ~resp.rate.allowed) =>
    /\ resp.status = 429
    /\ resp.error = "Too many login attempts. Please try again in "
                      \o formatWaitTime(resp.rate.resetTime, now) \o "."
    /\ resp.retryAfter * 1000 >= resp.rate.resetTime - now
    /\ (resp.retryAfter - 1) * 1000 < resp.rate.resetTime - now
    /\ resp.lookups = 0
    /\ reqs[resp.req].pc = "idle"

\* a POST denied one millisecond before its window ends, while another
\* request is still waiting for the database
C11_Witness ==
  /\ resp.checked /\ ~resp.rate.allowed
  /\ resp.status = 429 /\ resp.retryAfter = 1
  /\ \E r \in LoginRequests : reqs[r].pc = "awaitDb"

\* C12: in one process, two login POSTs of the same client address that both
\* get past the rate check are at least 120000 ms apart.
C12_LoginPassesTwoMinutesApart ==
  [][(last'.op = "check" /\ resp'.checked /\ resp'.rate.allowed) =>
       (hist[resp'.key].lastTime >= 0 =>
          now - hist[resp'.key].lastTime >= 120000)]_vars

\* a POST that got past the rate check exactly 120000 ms after the POST
\* that opened the previous window
C12_Witness ==
  /\ last.op = "check" /\ resp.checked /\ resp.rate.allowed
  /\ resp.key \in DOMAIN prevStore
  /\ now = prevStore[resp.key].firstAttempt + 120000

\* C13: with several login POSTs of one client address in flight at once
\* (handlers interleave only at their awaits), every rate check runs as one
\* step, so each window admits at most one of them and the record's attempts
\* equals the number of calls admitted in its window.
C13_ConcurrentLoginsOnePerWindow ==
  /\ \A k \in LoginKeys : hist[k].count <= 1
  /\ \A k \in DOMAIN rateLimitStore :
       /\ rateLimitStore[k].resetTime = hist[k].end
       /\ rateLimitStore[k].attempts = hist[k].count

\* a POST is denied while an earlier POST of the same client address, the
\* one admitted in this window, is still waiting for the database
C13_Witness ==
  /\ last.op = "check" /\ resp.status = 429
  /\ \E r \in LoginRequests :
       /\ r # resp.req
       /\ reqs[r].pc = "awaitDb"
       /\ reqs[r].key = resp.key
  /\ hist[resp.key].lastTime = now

IsFormat == util.op = "formatWaitTime"
\* milliseconds from the clock to the reset time given to formatWaitTime
FormatDelta == util.resetTime - now

\* C14: formatWaitTime of a resetTime already in the past returns
\* "0 seconds": the seconds are clamped at 0 and never rendered negative.
C14_PastResetTimeClamped ==
  (IsFormat /\ FormatDelta < 0) => util.text = "0 seconds"

\* the smallest whole number n with n * unit >= x, for x > 0
CeilOf(x, unit) ==
  CHOOSE n \in 0..(MaxFormatSeconds + 1) : n * unit >= x /\ (n - 1) * unit < x

\* C15: for a resetTime d > 0 ms ahead, formatWaitTime renders
\* s = ceil(d / 1000) in seconds when s < 60 and ceil(s / 60) in minutes
\* otherwise: 30000 ms is "30 seconds", 150000 ms is "3 minutes", and
\* 60000 ms is a minutes text.
C15_FutureResetTimeRendered ==
  (IsFormat /\ FormatDelta > 0) =>
    LET s == CeilOf(FormatDelta, 1000)
        m == CeilOf(s, 60)
    IN /\ (s < 60) => util.text \in {ToString(s) \o " second", ToString(s) \o " seconds"}
       /\ (s >= 60) => util.text \in {ToString(m) \o " minute", ToString(m) \o " minutes"}
       /\ (FormatDelta = 30000) => util.text = "30 seconds"
       /\ (FormatDelta = 150000) => util.text = "3 minutes"
       /\ (FormatDelta = 60000) => util.text = "1 minute"

\* formatWaitTime was given a reset time exactly 60000 ms ahead
C15_Witness ==
  IsFormat /\ FormatDelta = 60000 /\ util.text = "1 minute"

IsClientIP == util.op = "getClientIP"
Chars(v) == {v[i] : i \in 1..Len(v)}

\* e is the first entry of the comma-separated list v
IsFirstEntryOf(e, v) ==
  \E n \in 0..Len(v) :
    /\ e = SubSeq(v, 1, n)
    /\ "," \notin Chars(e)
    /\ n = Len(v) \/ v[n + 1] = ","

\* t is e without its leading and trailing blanks
IsTrimOf(t, e) ==
  \E i \in 1..(Len(e) + 1), j \in 0..Len(e) :
    /\ t = SubSeq(e, i, j)
    /\ \A k \in 1..(i - 1) : e[k] = " "
    /\ \A k \in (j + 1)..Len(e) : e[k] = " "
    /\ t = <<>> \/ (t[1] # " " /\ t[Len(t)] # " ")

\* t is the trimmed first entry of the forwarded-for header value v
IsTrimmedFirstEntry(t, v) ==
  \E n \in 0..Len(v) : IsFirstEntryOf(SubSeq(v, 1, n), v) /\ IsTrimOf(t, SubSeq(v, 1, n))

\* C16 as stated: getClientIP returns a non-empty string, which is the
\* trimmed first forwarded-for entry whenever that header is present, else
\* the real-address header, else the remote address, else "unknown".
C16_PriorityByPresence ==
  IsClientIP =>
    /\ util.ip # <<>>
    /\ IF util.req.xff.present THEN IsTrimmedFirstEntry(util.ip, util.req.xff.value)
       ELSE IF util.req.xri.present THEN util.ip = util.req.xri.value
       ELSE IF util.req.remote.present THEN util.ip = util.req.remote.value
       ELSE util.ip = UnknownIP

\* C16 (amended): getClientIP returns a non-empty string: the trimmed first
\* forwarded-for entry if the header is present and that entry is not empty,
\* else the real-address header if present and not empty, else the remote
\* address if present and not empty, else "unknown".
C16_PriorityByNonEmpty ==
  IsClientIP =>
    LET xff == util.req.xff
        xri == util.req.xri
        remote == util.req.remote
        usableFirst == xff.present /\ ~IsTrimmedFirstEntry(<<>>, xff.value)
    IN /\ util.ip # <<>>
       /\ IF usableFirst THEN IsTrimmedFirstEntry(util.ip, xff.value)
          ELSE IF xri.present /\ xri.value # <<>> THEN util.ip = xri.value
          ELSE IF remote.present /\ remote.value # <<>> THEN util.ip = remote.value
          ELSE util.ip = UnknownIP

\* a forwarded-for list whose first entry carries a blank wins over a
\* real-address header
C16_Witness ==
  /\ IsClientIP
  /\ util.req.xff = Str(<<" ", "7", ",">>)
  /\ util.req.xri.present /\ util.req.xri.value # <<>>
  /\ util.ip = <<"7">>

\* the request answered last, or in flight, at the pets endpoint
PetSlots == {reqs[r] : r \in PetRequests}
InFlight(slot) == slot.pc # "idle"
\* the headers name an active admin_users row
CredentialsMatch(creds) ==
  /\ creds.username # "" /\ creds.password # ""
  /\ \E a \in AdminUsers :
       a.username = creds.username /\ a.password = creds.password /\ a.is_active
Unauthorized(x) == x.method \in WriteMethods /\ ~CredentialsMatch(x.creds)
ByMiniadmin(x) ==
  x.creds.username # "" /\ x.creds.password # "" /\
  \E a \in AdminUsers :
    /\ a.username = x.creds.username /\ a.password = x.creds.password
    /\ a.is_active /\ a.role = "miniadmin"
TablesUntouched == pets' = pets /\ petSeq' = petSeq /\ auditLog' = auditLog

\* C17 as stated: a POST, PUT or DELETE whose credentials are missing or
\* match no active admin_users row is answered 401, and no step taken for it
\* writes the pets table or the audit log.
C17_UnauthorizedAnswered401 ==
  [][ /\ \A slot \in PetSlots :
           (InFlight(slot) /\ Unauthorized(slot)) => TablesUntouched
      /\ (resp'.req \in PetRequests /\ Unauthorized(resp')) =>
           resp'.status = 401 /\ resp'.wrote = {} ]_vars

\* C17: a POST, PUT or DELETE whose credentials are missing or match no
\* active admin_users row is answered 401, or 500 when the service-role
\* client is not configured; no step taken for it writes the pets table or
\* the audit log.
C17_UnauthorizedNeverWrites ==
  [][ /\ \A slot \in PetSlots :
           (InFlight(slot) /\ Unauthorized(slot)) => TablesUntouched
      /\ (resp'.req \in PetRequests /\ Unauthorized(resp')) =>
           /\ resp'.status = IF supabaseAdmin THEN 401 ELSE 500
           /\ resp'.wrote = {} ]_vars

\* a DELETE with the credentials of a deactivated admin was turned away
\* while the table held a pet
C17_Witness ==
  /\ resp.req \in PetRequests
  /\ resp.method = "DELETE"
  /\ resp.creds = [username |-> "gone", password |-> "pw-gone"]
  /\ resp.status = 401
  /\ supabaseAdmin
  /\ 1 \in DOMAIN pets

\* C18: a POST or DELETE that verifyAdmin found to come from a miniadmin is
\* answered 403; no step taken for a POST or DELETE with a miniadmin's
\* credentials writes the pets table or the audit log, and none goes on to
\* a database write.
C18_MiniadminCannotCreateOrDelete ==
  [][ /\ \A r \in PetRequests :
           (InFlight(reqs[r]) /\ reqs[r].method \in {"POST", "DELETE"}
              /\ ByMiniadmin(reqs[r])) =>
             TablesUntouched /\ ~InFlight(reqs'[r])
      /\ (resp'.req \in PetRequests /\ resp'.method \in {"POST", "DELETE"}
            /\ ByMiniadmin(resp')) =>
           /\ resp'.wrote = {}
           /\ resp'.admin.role = "miniadmin" => resp'.status = 403 ]_vars

\* a miniadmin's POST with a complete body was refused
C18_Witness ==
  /\ resp.req \in PetRequests
  /\ resp.method = "POST"
  /\ resp.admin = [username |-> "mini", role |-> "miniadmin"]
  /\ resp.status = 403
  /\ DOMAIN pets = {1}
  /\ auditLog = <<>>

\* C19: the update a miniadmin's PUT sends holds exactly value_normal,
\* value_golden, value_rainbow, value_void and updated_at; no step taken for
\* the request adds or removes a pet or changes a pet's id, name, rarity,
\* stats, stats_type, image_url or how_to_get.
C19_MiniadminEditsValuesOnly ==
  [][ \A r \in PetRequests :
        (InFlight(reqs[r]) /\ reqs[r].method = "PUT" /\ ByMiniadmin(reqs[r])) =>
          /\ reqs[r].pc = "write" =>
               DOMAIN reqs[r].data = ValueFields \cup {"updated_at"}
          /\ DOMAIN pets' = DOMAIN pets
          /\ \A id \in DOMAIN pets : \A f \in DetailFields \cup {"id"} :
               pets'[id][f] = pets[id][f] ]_vars

\* a miniadmin's PUT whose body renames the pet went through: the values
\* are the body's, the name is the old one
C19_Witness ==
  /\ resp.req \in PetRequests
  /\ resp.method = "PUT"
  /\ resp.admin.role = "miniadmin"
  /\ resp.status = 200
  /\ "pets" \in resp.wrote
  /\ pets[1]["value_normal"] = "9" /\ pets[1]["value_void"] = "1"
  /\ pets[1]["name"] = "Axo" /\ pets[1]["stats"] = "3"

\* C20: a call leaves every other identifier's record as it was (present
\* or absent, and field for field), and the decision on an identifier is
\* the one of a store that saw only the calls made with that identifier.
C20_OtherIdentifiersUntouched ==
  IsCheck =>
    /\ \A k \in Identifiers \ {last.id} :
         /\ MapHas(rateLimitStore, k) <=> MapHas(prevStore, k)
         /\ MapHas(prevStore, k) => rateLimitStore[k] = prevStore[k]
    /\ last.id = Watched => result = refLast.result

\* the watched identifier is denied while the other identifier holds a
\* record with two attempts that the isolated replica never saw
C20_Witness ==
  /\ IsCheck /\ last.id = Watched
  /\ ~result.allowed
  /\ DOMAIN refStore = {Watched}
  /\ \E k \in DOMAIN rateLimitStore : k # Watched /\ rateLimitStore[k].attempts >= 2

\* C21 as stated: after a login answered valid: true, a POST from the same
\* client address that is rate-checked less than 2 minutes after the
\* successful one was admitted is not answered 429.
C21_SuccessfulLoginNotLimited ==
  [][ (/\ resp.req \in LoginRequests /\ resp.status = 200 /\ resp.valid
       /\ resp'.req \in LoginRequests /\ resp'.method = "POST"
       /\ resp'.checked /\ resp'.key = resp.key
       /\ last'.op = "check"
       /\ now' < hist[resp.key].lastTime + 2 * 60 * 1000) =>
        resp'.status # 429 ]_vars

\* C22: a record whose window is open (now < resetTime) is still in the
\* store after any call, sweep or tick, with the same resetTime; the
\* resetTime a call reports is the creation time of the identifier's latest
\* record plus windowMs.
C22_WindowFixedAtCreation ==
  [][ /\ \A k \in DOMAIN rateLimitStore :
           now < rateLimitStore[k].resetTime =>
             /\ MapHas(rateLimitStore', k)
             /\ rateLimitStore'[k].resetTime = rateLimitStore[k].resetTime
      /\ last'.op = "check" =>
           /\ result'.resetTime = hist'[last'.id].start + cfg[last'.id].windowMs
           /\ result'.resetTime = rateLimitStore'[last'.id].resetTime ]_vars

\* a second denied call in a window that was created before the current
\* instant
C22_Witness ==
  /\ IsCheck /\ HadRecord
  /\ ~result.allowed
  /\ Pre.attempts >= 2
  /\ hist[last.id].start < now
  /\ result.resetTime = hist[last.id].start + cfg[last.id].windowMs

\* the number of calls the log holds for the instants a..b
RECURSIVE AdmittedIn(_, _, _)
AdmittedIn(log, a, b) == IF a > b THEN 0 ELSE log[a] + AdmittedIn(log, a + 1, b)
\* the spans of time strictly shorter than windowMs: their first and last
\* instant
ShortSpans(windowMs) ==
  {span \in (0..MaxTime) \X (0..MaxTime) :
     span[1] <= span[2] /\ span[2] - span[1] < windowMs}

\* C23: with one windowMs and one maxAttempts = M per identifier, the calls
\* admitted for an identifier inside any span of time shorter than windowMs
\* number at most 2*M - 1.
C23_AtMostTwoMMinusOneInSpan ==
  \A id \in {Watched} : \A span \in ShortSpans(cfg[id].windowMs) :
    AdmittedIn(hist[id], span[1], span[2]) <= 2 * cfg[id].maxAttempts - 1

\* the bound is met with M >= 2: the last M - 1 calls of one window and the
\* first M of the next fall inside one short span
C23_Witness ==
  \E id \in {Watched} : \E span \in ShortSpans(cfg[id].windowMs) :
    /\ cfg[id].maxAttempts >= 2
    /\ AdmittedIn(hist[id], span[1], span[2]) = 2 * cfg[id].maxAttempts - 1
    /\ hist[id][span[1]] = cfg[id].maxAttempts - 1

\* C24: a login request that is an OPTIONS preflight or uses a method other
\* than POST is answered 200 (OPTIONS) or 405 without a rate check: the
\* store, the observers of the keys and the waiting requests are as before.
C24_NonPostSkipsRateCheck ==
  [][ (resp'.req \in LoginRequests /\ resp'.method # "POST" /\ resp' # resp) =>
        /\ resp'.status = IF resp'.method = "OPTIONS" THEN 200 ELSE 405
        /\ ~resp'.checked
        /\ last'.op # "check"
        /\ rateLimitStore' = rateLimitStore
        /\ hist' = hist
        /\ reqs' = reqs ]_vars

\* a GET was answered 405 after a POST had been admitted at this instant:
\* the key's record still counts that one attempt
C24_Witness ==
  /\ resp.req \in LoginRequests
  /\ resp.method = "GET" /\ resp.status = 405
  /\ last.op = "request"
  /\ \E k \in DOMAIN rateLimitStore :
       rateLimitStore[k].attempts = 1 /\ rateLimitStore[k].firstAttempt = now

====
